---- MODULE Spec2Model ----
(***************************************************************************)
(* A model of densenet/utils.py: the model parameter resolver              *)
(* (get_model_params), the pretrained-weight loader                        *)
(* (load_pretrained_weights) and the training-loop helpers                 *)
(* (adjust_learning_rate, accuracy, AverageMeter).                         *)
(*                                                                         *)
(* The five groups are independent in the source; each has its own         *)
(* specification (SpecParams, SpecLoad, SpecLr, SpecAcc, SpecMeter) over   *)
(* its own variables, the other variables resting at their idle values.    *)
(*                                                                         *)
(* Python floats that are quotients (the meter's average, the learning     *)
(* rate, the accuracy percentage) are modelled as exact fractions          *)
(* <<numerator, denominator>> in lowest terms.                             *)
(***************************************************************************)
EXTENDS Integers, Sequences, FiniteSets, TLC

VARIABLES
    \* get_model_params: the last call and what it returned or raised
    gmpName, gmpOverride, gmpResult,
    \* load_pretrained_weights: the model object, the last call and its effects
    modelState, modelParams, loadName, loadFc, fetched, handed, strictLoad,
    loadErr, printed,
    \* adjust_learning_rate: args.lr, optimizer.param_groups, the last epoch
    argsLr, paramGroups, lrEpoch,
    \* accuracy: the last call (output, target, topk), the top-k indices, the result
    accOutput, accTarget, accTopk, accPred, accRes, accStatus,
    \* AverageMeter: its four fields, whether the last call raised, and the
    \* history of update(val, n) calls since the last reset
    val, avg, sum, count, meterErr, hist

paramsVars == <<gmpName, gmpOverride, gmpResult>>
loadVars == <<modelState, modelParams, loadName, loadFc, fetched, handed,
              strictLoad, loadErr, printed>>
lrVars == <<argsLr, paramGroups, lrEpoch>>
accVars == <<accOutput, accTarget, accTopk, accPred, accRes, accStatus>>
meterVars == <<val, avg, sum, count, meterErr, hist>>
vars == <<paramsVars, loadVars, lrVars, accVars, meterVars>>

----------------------------------------------------------------------------
(* Bounds of the model *)

\* an override mapping holds at most this many keys
MaxOverrideKeys == 2
\* override values are 1..NumOverrideValues
NumOverrideValues == 2
\* a checkpoint's tensors are 1..NumTensors
NumTensors == 2
\* an optimizer has at most this many parameter groups
MaxGroups == 2
\* epochs are 0..MaxEpoch
MaxEpoch == 61
\* a batch holds at most this many examples
MaxBatch == 2
\* a topk tuple holds at most this many k values
MaxTopkLen == 2
\* a meter takes at most this many updates between two resets
MaxUpdates == 3
\* update weights are -1..MaxWeight
MaxWeight == 2

----------------------------------------------------------------------------
(* Exact fractions *)

Abs(x) == IF x < 0 THEN 0 - x ELSE x

RECURSIVE GCD(_, _)
GCD(a, b) == IF b = 0 THEN a ELSE GCD(b, a % b)

\* n / d in lowest terms, d > 0
Frac(n, d) ==
    LET g == GCD(Abs(n), Abs(d))
        s == IF d < 0 THEN 0 - 1 ELSE 1
    IN  <<(s * n) \div g, (s * d) \div g>>

FracMul(p, q) == Frac(p[1] * q[1], p[2] * q[2])

RECURSIVE Pow(_, _)
Pow(b, e) == IF e = 0 THEN 1 ELSE b * Pow(b, e - 1)

----------------------------------------------------------------------------
(* Model parameter resolver *)

\* Python's None; every field value of the model is a natural or a boolean
None == 0 - 1

\* GlobalParams._fields
GlobalParamsFields ==
    {"growth_rate", "num_init_features", "bn_size", "drop_rate",
     "memory_efficient", "num_classes", "image_size"}

\* GlobalParams(**kwargs) with __new__.__defaults__ = (None,) * len(_fields)
GlobalParams(kwargs) ==
    [f \in GlobalParamsFields |->
        IF f \in DOMAIN kwargs THEN kwargs[f] ELSE None]

\* The model names the resolver is called with
SupportedNames == {"densenet121", "densenet161", "densenet169", "densenet201"}
ModelNames == SupportedNames \cup {"densenet999", "densenet", "resnet50", ""}

\* model_name.startswith('densenet'), over ModelNames
StartsWithDensenet(model_name) ==
    model_name \in SupportedNames \cup {"densenet999", "densenet"}

\* params_dict of densenet_params: growth_rate, num_init_features, res
params_dict ==
    [n \in SupportedNames |->
        CASE n = "densenet121" -> <<32, 64, 224>>
          [] n = "densenet161" -> <<48, 96, 224>>
          [] n = "densenet169" -> <<32, 64, 224>>
          [] n = "densenet201" -> <<32, 64, 224>>]

\* blocks_dict of densenet
blocks_dict ==
    [n \in SupportedNames |->
        CASE n = "densenet121" -> <<6, 12, 24, 16>>
          [] n = "densenet161" -> <<6, 12, 36, 24>>
          [] n = "densenet169" -> <<6, 12, 36, 32>>
          [] n = "densenet201" -> <<6, 12, 48, 32>>]

\* What a call returns: status "ok" with its values, or the exception raised
Returned(blocks_args, global_params) ==
    [status |-> "ok", blocks_args |-> blocks_args, global_params |-> global_params]
Raised(exc) ==
    [status |-> exc, blocks_args |-> <<>>, global_params |-> <<>>]

\* densenet_params(model_name): params_dict[model_name], a KeyError otherwise
densenet_params(model_name) ==
    IF model_name \in DOMAIN params_dict
    THEN [status |-> "ok", value |-> params_dict[model_name]]
    ELSE [status |-> "KeyError", value |-> <<>>]

\* A faulty variant of densenet: image_size is not handed to GlobalParams
densenet_drops_image_size(model_name, growth_rate, num_init_features, image_size) ==
    IF model_name \notin DOMAIN blocks_dict
    THEN Raised("KeyError")
    ELSE Returned(blocks_dict[model_name],
                  GlobalParams([growth_rate |-> growth_rate,
                                num_init_features |-> num_init_features,
                                bn_size |-> 4,
                                drop_rate |-> 0,
                                num_classes |-> 1000,
                                memory_efficient |-> FALSE]))

\* densenet(model_name, growth_rate, num_init_features, image_size) with the
\* defaults bn_size=4, drop_rate=0, num_classes=1000, memory_efficient=False
densenet(model_name, growth_rate, num_init_features, image_size) ==
    IF model_name \notin DOMAIN blocks_dict
    THEN Raised("KeyError")
    ELSE Returned(blocks_dict[model_name],
                  GlobalParams([growth_rate |-> growth_rate,
                                num_init_features |-> num_init_features,
                                image_size |-> image_size,
                                bn_size |-> 4,
                                drop_rate |-> 0,
                                num_classes |-> 1000,
                                memory_efficient |-> FALSE]))

\* A faulty variant of _replace: unknown keys are dropped silently
replace_ignoring_unknown(global_params, kwds) ==
    [status |-> "ok",
     value |-> [f \in GlobalParamsFields |->
                   IF f \in DOMAIN kwds THEN kwds[f] ELSE global_params[f]]]

\* global_params._replace(**kwds): a ValueError on a key that is no field
replace(global_params, kwds) ==
    IF DOMAIN kwds \subseteq GlobalParamsFields
    THEN [status |-> "ok",
          value |-> [f \in GlobalParamsFields |->
                        IF f \in DOMAIN kwds THEN kwds[f] ELSE global_params[f]]]
    ELSE [status |-> "ValueError", value |-> <<>>]

\* get_model_params(model_name, override_params); an empty mapping and None
\* are both falsy, so both skip the _replace
get_model_params(model_name, override_params) ==
    IF StartsWithDensenet(model_name)
    THEN LET c == densenet_params(model_name) IN
         IF c.status # "ok" THEN Raised(c.status)
         ELSE LET d == densenet(model_name, c.value[1], c.value[2], c.value[3]) IN
              IF d.status # "ok" THEN d
              ELSE IF DOMAIN override_params # {}
                   THEN LET r == replace(d.global_params, override_params) IN
                        IF r.status # "ok" THEN Raised(r.status)
                        ELSE Returned(d.blocks_args, r.value)
                   ELSE Returned(d.blocks_args, d.global_params)
    ELSE Raised("NotImplementedError")

\* The keys and values an override mapping is drawn from
OverrideKeys == GlobalParamsFields \cup {"foo"}
OverrideValues == 1..NumOverrideValues
OverrideMappings ==
    UNION {[S -> OverrideValues] :
            S \in {T \in SUBSET OverrideKeys : Cardinality(T) <= MaxOverrideKeys}}

NotCalled == [status |-> "none", blocks_args |-> <<>>, global_params |-> <<>>]

ParamsIdle ==
    /\ gmpName = ""
    /\ gmpOverride = <<>>
    /\ gmpResult = NotCalled

\* A caller invokes get_model_params(model_name, override_params)
CallGetModelParams ==
    /\ gmpResult.status = "none"
    /\ \E model_name \in ModelNames, override_params \in OverrideMappings :
        /\ gmpName' = model_name
        /\ gmpOverride' = override_params
        /\ gmpResult' = get_model_params(model_name, override_params)
    /\ UNCHANGED <<loadVars, lrVars, accVars, meterVars>>

\* The caller has taken the result (or caught the exception)
ParamsReturn ==
    /\ gmpResult.status # "none"
    /\ gmpName' = ""
    /\ gmpOverride' = <<>>
    /\ gmpResult' = NotCalled
    /\ UNCHANGED <<loadVars, lrVars, accVars, meterVars>>

----------------------------------------------------------------------------
(* Pretrained-weight loader *)

(* A state-dict key is the sequence of its dot-separated segments:          *)
(* 'classifier.weight' is <<"classifier", "weight">>.  A state dict is a    *)
(* function from a set of keys to tensors; a tensor is a number naming it.  *)

\* urls_map: the names that have a download URL
urls_map == SupportedNames

\* The names load_pretrained_weights is called with
LoadNames == {"densenet121", "densenet999"}

\* Segments that end with 'denselayer' and one or more digits
DenseLayerSegments == {"denselayer1", "denselayer12"}

ClassifierWeight == <<"classifier", "weight">>
ClassifierBias == <<"classifier", "bias">>

\* The keys a fetched checkpoint is drawn from
CheckpointKeys ==
    { <<"features", "denseblock1", "denselayer1", "norm", "1", "weight">>,
      <<"features", "denseblock1", "denselayer1", "norm1", "weight">>,
      <<"denselayer12", "conv", "2", "running_var">>,
      <<"features", "denseblock1", "denselayer1", "norm", "3", "weight">>,
      <<"features", "denselayer", "relu", "1", "bias">>,
      <<"denselayer1", "norm", "2", "num_batches_tracked">>,
      ClassifierWeight,
      ClassifierBias }

\* The keys of model.state_dict()
ModelKeys ==
    { <<"features", "denseblock1", "denselayer1", "norm1", "weight">>,
      <<"denselayer12", "conv2", "running_var">>,
      ClassifierWeight,
      ClassifierBias }

Tensors == 1..NumTensors
Checkpoints == UNION {[S -> Tensors] : S \in SUBSET CheckpointKeys}

\* pattern.match(key) for
\* ^(.*denselayer\d+\.(?:norm|relu|conv))\.((?:[12])\.(?:weight|bias|running_mean|running_var))$
\* : the last four segments are <x>denselayer<N>, norm|relu|conv, 1|2 and a
\* parameter name; what precedes them is free
pattern_match(key) ==
    LET n == Len(key) IN
    /\ n >= 4
    /\ key[n - 3] \in DenseLayerSegments
    /\ key[n - 2] \in {"norm", "relu", "conv"}
    /\ key[n - 1] \in {"1", "2"}
    /\ key[n] \in {"weight", "bias", "running_mean", "running_var"}

\* res.group(1) + res.group(2): the dot between the two groups is dropped, so
\* the segments 'norm' and '1' become the one segment 'norm1'
new_key_of(key) ==
    LET n == Len(key) IN
    SubSeq(key, 1, n - 3) \o <<key[n - 2] \o key[n - 1], key[n]>>

\* state_dict[new_key] = value
dict_set(d, k, v) ==
    [x \in DOMAIN d \cup {k} |-> IF x = k THEN v ELSE d[x]]

\* del state_dict[key]; state_dict.pop(key) of a key that is present
dict_del(d, k) ==
    [x \in DOMAIN d \ {k} |-> d[x]]

\* A faulty variant of rewrite_keys: the old key is not deleted
RECURSIVE rewrite_keys_keeps_old(_, _)
rewrite_keys_keeps_old(state_dict, keys) ==
    IF keys = {} THEN state_dict
    ELSE LET key == CHOOSE k \in keys : TRUE IN
         IF pattern_match(key)
         THEN rewrite_keys_keeps_old(
                  dict_set(state_dict, new_key_of(key), state_dict[key]),
                  keys \ {key})
         ELSE rewrite_keys_keeps_old(state_dict, keys \ {key})

\* for key in list(state_dict.keys()): ... over the keys not yet visited
RECURSIVE rewrite_keys(_, _)
rewrite_keys(state_dict, keys) ==
    IF keys = {} THEN state_dict
    ELSE LET key == CHOOSE k \in keys : TRUE IN
         IF pattern_match(key)
         THEN rewrite_keys(
                  dict_del(dict_set(state_dict, new_key_of(key), state_dict[key]), key),
                  keys \ {key})
         ELSE rewrite_keys(state_dict, keys \ {key})

\* model.load_state_dict(state_dict, strict): the tensors of the keys the model
\* has are copied in; a strict load then raises on a missing or unexpected key
load_state_dict(params, state_dict, strict) ==
    [params |-> [k \in DOMAIN params |->
                    IF k \in DOMAIN state_dict THEN state_dict[k] ELSE params[k]],
     err |-> IF strict /\ DOMAIN state_dict # DOMAIN params
             THEN "RuntimeError" ELSE "none"]

\* What one call of load_pretrained_weights does
LoadOutcome(params, sd, how, err, msg) ==
    [params |-> params, handed |-> sd, strict |-> how, err |-> err, printed |-> msg]

\* The load_fc branch: rewrite the keys, then load strictly
load_with_fc(params, state_dict) ==
    LET rewritten == rewrite_keys(state_dict, DOMAIN state_dict)
        l == load_state_dict(params, rewritten, TRUE)
    IN  LoadOutcome(l.params, rewritten, "strict", l.err, l.err = "none")

\* The else branch: pop the two classifier entries (a KeyError when one is
\* absent), then load permissively
load_without_fc(params, state_dict) ==
    IF ClassifierWeight \notin DOMAIN state_dict
    THEN LoadOutcome(params, <<>>, "none", "KeyError", FALSE)
    ELSE LET d1 == dict_del(state_dict, ClassifierWeight) IN
         IF ClassifierBias \notin DOMAIN d1
         THEN LoadOutcome(params, <<>>, "none", "KeyError", FALSE)
         ELSE LET d2 == dict_del(d1, ClassifierBias)
                  l == load_state_dict(params, d2, FALSE)
              IN  LoadOutcome(l.params, d2, "permissive", l.err, l.err = "none")

\* load_pretrained_weights(model, model_name, load_fc) when
\* model_zoo.load_url returns state_dict
load_pretrained_weights(params, model_name, load_fc, state_dict) ==
    IF model_name \notin urls_map
    THEN LoadOutcome(params, <<>>, "none", "KeyError", FALSE)
    ELSE IF load_fc THEN load_with_fc(params, state_dict)
         ELSE load_without_fc(params, state_dict)

LoadIdle ==
    /\ modelState = "none"
    /\ modelParams = <<>>
    /\ loadName = ""
    /\ loadFc = TRUE
    /\ fetched = <<>>
    /\ handed = <<>>
    /\ strictLoad = "none"
    /\ loadErr = "none"
    /\ printed = FALSE

\* The driver constructs a model: fresh parameters (tensor 0)
ConstructModel ==
    /\ modelState' = "constructed"
    /\ modelParams' = [k \in ModelKeys |-> 0]
    /\ loadName' = ""
    /\ loadFc' = TRUE
    /\ fetched' = <<>>
    /\ handed' = <<>>
    /\ strictLoad' = "none"
    /\ loadErr' = "none"
    /\ printed' = FALSE
    /\ UNCHANGED <<paramsVars, lrVars, accVars, meterVars>>

\* The driver calls load_pretrained_weights on the constructed model; the
\* download returns some checkpoint when the name has a URL
LoadPretrainedWeights ==
    /\ modelState = "constructed"
    /\ \E model_name \in LoadNames, load_fc \in BOOLEAN :
         \E state_dict \in (IF model_name \in urls_map THEN Checkpoints ELSE {<<>>}) :
           LET r == load_pretrained_weights(modelParams, model_name, load_fc, state_dict) IN
           /\ modelState' = "loaded"
           /\ modelParams' = r.params
           /\ loadName' = model_name
           /\ loadFc' = load_fc
           /\ fetched' = state_dict
           /\ handed' = r.handed
           /\ strictLoad' = r.strict
           /\ loadErr' = r.err
           /\ printed' = r.printed
    /\ UNCHANGED <<paramsVars, lrVars, accVars, meterVars>>

----------------------------------------------------------------------------
(* Learning-rate schedule *)

\* The base rates args.lr is drawn from: 0.1, 1.0, 0.03
BaseRates == {<<1, 10>>, <<1, 1>>, <<3, 100>>}

\* A faulty variant of adjust_learning_rate: the decay is applied to each group's
\* current rate
adjust_learning_rate_compounding(param_groups, epoch, lr) ==
    [i \in DOMAIN param_groups |->
        FracMul(param_groups[i], Frac(1, Pow(10, epoch \div 30)))]

\* adjust_learning_rate(optimizer, epoch, args):
\* lr = args.lr * (0.1 ** (epoch // 30)), written to every param_group['lr']
adjust_learning_rate(param_groups, epoch, lr) ==
    LET new_lr == FracMul(lr, Frac(1, Pow(10, epoch \div 30))) IN
    [i \in DOMAIN param_groups |-> new_lr]

\* The training loop calls adjust_learning_rate(optimizer, epoch, args)
AdjustLearningRate ==
    /\ \E epoch \in 0..MaxEpoch :
         /\ paramGroups' = adjust_learning_rate(paramGroups, epoch, argsLr)
         /\ lrEpoch' = epoch
    /\ UNCHANGED <<argsLr, paramsVars, loadVars, accVars, meterVars>>

\* An optimizer with 1..MaxGroups parameter groups, each with its own rate,
\* and args.lr; no call yet
LrInit ==
    /\ argsLr \in BaseRates
    /\ paramGroups \in UNION {[1..n -> BaseRates] : n \in 1..MaxGroups}
    /\ lrEpoch = 0 - 1

----------------------------------------------------------------------------
(* Top-k accuracy *)

\* The score rows (one score per class) an example's prediction is drawn from
ScoreRows ==
    { <<3, 2, 1>>, <<1, 3, 2>>, <<2, 2, 1>>, <<0, 5, 5>> }

NumClasses == Len(CHOOSE r \in ScoreRows : TRUE)
Classes == 1..NumClasses

\* The k values a topk tuple is drawn from: up to one more than the classes
KValues == 1..(NumClasses + 1)
TopkTuples == UNION {[1..n -> KValues] : n \in 0..MaxTopkLen}

RECURSIVE SeqMax(_)
SeqMax(s) ==
    IF Len(s) = 1 THEN s[1]
    ELSE LET m == SeqMax(Tail(s)) IN IF s[1] >= m THEN s[1] ELSE m

\* row.topk(k, largest=True, sorted=True): the indices of k largest scores in
\* descending order of score; which of several equal scores comes first, or
\* is taken at all, is the library's choice
TopkChoices(row, k) ==
    {p \in [1..k -> DOMAIN row] :
        /\ \A i, j \in 1..k : i < j => (p[i] # p[j] /\ row[p[i]] >= row[p[j]])
        /\ \A c \in DOMAIN row :
              (\A i \in 1..k : p[i] # c) => row[c] <= row[p[k]]}

\* _, pred = output.topk(maxk, 1, True, True): one choice per example
RECURSIVE PredChoices(_, _)
PredChoices(output, maxk) ==
    IF output = <<>> THEN {<<>>}
    ELSE LET n == Len(output) IN
         {Append(pred, p) : pred \in PredChoices(SubSeq(output, 1, n - 1), maxk),
                            p \in TopkChoices(output[n], maxk)}

RECURSIVE SumTo(_, _)
SumTo(f, n) == IF n = 0 THEN 0 ELSE f[n] + SumTo(f, n - 1)

\* output.topk(maxk, 1, True, True) raises a RuntimeError when maxk exceeds
\* the number of classes (the size of dimension 1)
topk_raises(maxk) == maxk > NumClasses

\* correct[:k].view(-1): pred.t() is a transposed view and pred.eq(...) keeps
\* its layout (torch >= 1.7), so correct[:k] has sizes (k, batch_size) and
\* strides (1, maxk).  Dimensions of size 1 are dropped; an empty tensor can
\* always be viewed; two dimensions of size > 1 can be flattened only when
\* strides[0] = strides[1] * sizes[1].  Otherwise view raises a RuntimeError.
view_raises(k, batch_size, maxk) ==
    LET sizes == <<k, batch_size>>
        strides == <<1, maxk>>
    IN  /\ sizes[1] * sizes[2] # 0
        /\ sizes[1] > 1
        /\ sizes[2] > 1
        /\ strides[1] # strides[2] * sizes[2]

\* correct[:k].view(-1).float().sum(0): the entries of the first k rows of
\* pred.t() that equal the example's target
correct_k(pred, target, k) ==
    SumTo([i \in 1..Len(target) |->
              SumTo([j \in 1..k |-> IF pred[i][j] = target[i] THEN 1 ELSE 0], k)],
          Len(target))

\* for k in topk, from position x on, res holding the results so far:
\* correct[:k].view(-1) may raise, then 100.0 / batch_size raises a
\* ZeroDivisionError on an empty batch, else the result is appended
RECURSIVE accuracy_loop(_, _, _, _, _)
accuracy_loop(pred, target, topk, x, res) ==
    IF x > Len(topk) THEN [status |-> "ok", res |-> res]
    ELSE LET k == topk[x]
             batch_size == Len(target)
         IN  IF view_raises(k, batch_size, SeqMax(topk))
             THEN [status |-> "RuntimeError", res |-> <<>>]
             ELSE IF batch_size = 0
             THEN [status |-> "ZeroDivisionError", res |-> <<>>]
             ELSE accuracy_loop(pred, target, topk, x + 1,
                      Append(res, Frac(correct_k(pred, target, k) * 100, batch_size)))

\* accuracy(output, target, topk) on a batch of batch_size examples:
\* max(topk) raises a ValueError on an empty tuple and output.topk a
\* RuntimeError on a maxk above the number of classes; then the loop over
\* topk runs
AccuracyCall(topk, batch_size) ==
    \E output \in [1..batch_size -> ScoreRows],
       target \in [1..batch_size -> Classes] :
        /\ accOutput' = output
        /\ accTarget' = target
        /\ accTopk' = topk
        /\ IF topk = <<>>
           THEN /\ accStatus' = "ValueError"
                /\ accPred' = <<>>
                /\ accRes' = <<>>
           ELSE IF topk_raises(SeqMax(topk))
           THEN /\ accStatus' = "RuntimeError"
                /\ accPred' = <<>>
                /\ accRes' = <<>>
           ELSE \E pred \in PredChoices(output, SeqMax(topk)) :
                  LET r == accuracy_loop(pred, target, topk, 1, <<>>) IN
                  /\ accPred' = pred
                  /\ accStatus' = r.status
                  /\ accRes' = r.res

\* The k values of a tuple are all within the number of classes
WithinClasses(topk) == \A x \in DOMAIN topk : topk[x] <= NumClasses

\* The training loop calls accuracy with a topk tuple within the number of
\* classes, or with one that asks for more
Accuracy ==
    /\ accStatus = "idle"
    /\ \/ \E topk \in {t \in TopkTuples : WithinClasses(t)},
             batch_size \in 0..MaxBatch : AccuracyCall(topk, batch_size)
       \/ \E topk \in {t \in TopkTuples : ~WithinClasses(t)},
             batch_size \in 0..MaxBatch : AccuracyCall(topk, batch_size)
    /\ UNCHANGED <<paramsVars, loadVars, lrVars, meterVars>>

\* The caller has taken the result (or caught the exception)
AccuracyReturn ==
    /\ accStatus # "idle"
    /\ accOutput' = <<>>
    /\ accTarget' = <<>>
    /\ accTopk' = <<>>
    /\ accPred' = <<>>
    /\ accRes' = <<>>
    /\ accStatus' = "idle"
    /\ UNCHANGED <<paramsVars, loadVars, lrVars, meterVars>>

----------------------------------------------------------------------------
(* AverageMeter *)

\* The values and weights update is called with
MeterValues == {0 - 2, 4, 6}
MeterWeights == (0 - 1)..MaxWeight

\* reset(): val = avg = sum = count = 0
reset ==
    [val |-> 0, avg |-> <<0, 1>>, sum |-> 0, count |-> 0, err |-> "none"]

\* A faulty variant of update: sum += val, the weight forgotten
update_unweighted(self, v, n) ==
    IF self.count + n = 0
    THEN [val |-> v, avg |-> self.avg, sum |-> self.sum + v,
          count |-> self.count + n, err |-> "ZeroDivisionError"]
    ELSE [val |-> v, avg |-> Frac(self.sum + v, self.count + n),
          sum |-> self.sum + v, count |-> self.count + n, err |-> "none"]

\* A faulty variant of update: the count is tested first and a call that would
\* bring it to zero raises before any field is written
update_checks_first(self, v, n) ==
    IF self.count + n = 0
    THEN [val |-> self.val, avg |-> self.avg, sum |-> self.sum,
          count |-> self.count, err |-> "ZeroDivisionError"]
    ELSE [val |-> v, avg |-> Frac(self.sum + v * n, self.count + n),
          sum |-> self.sum + v * n, count |-> self.count + n, err |-> "none"]

\* update(val, n): val, sum and count are assigned, then
\* self.avg = self.sum / self.count raises when count is zero
update(self, v, n) ==
    IF self.count + n = 0
    THEN [val |-> v, avg |-> self.avg, sum |-> self.sum + v * n,
          count |-> self.count + n, err |-> "ZeroDivisionError"]
    ELSE [val |-> v, avg |-> Frac(self.sum + v * n, self.count + n),
          sum |-> self.sum + v * n, count |-> self.count + n, err |-> "none"]

Meter == [val |-> val, avg |-> avg, sum |-> sum, count |-> count]

SetMeter(m) ==
    /\ val' = m.val
    /\ avg' = m.avg
    /\ sum' = m.sum
    /\ count' = m.count
    /\ meterErr' = m.err

\* The owner calls meter.update(v, n)
Update ==
    /\ Len(hist) < MaxUpdates
    /\ \E v \in MeterValues, n \in MeterWeights :
         /\ SetMeter(update(Meter, v, n))
         /\ hist' = Append(hist, <<v, n>>)
    /\ UNCHANGED <<paramsVars, loadVars, lrVars, accVars>>

\* The owner calls meter.reset()
Reset ==
    /\ SetMeter(reset)
    /\ hist' = <<>>
    /\ UNCHANGED <<paramsVars, loadVars, lrVars, accVars>>

----------------------------------------------------------------------------
(* Specifications *)

LrIdle ==
    /\ argsLr = <<0, 1>>
    /\ paramGroups = <<>>
    /\ lrEpoch = 0 - 1

AccIdle ==
    /\ accOutput = <<>>
    /\ accTarget = <<>>
    /\ accTopk = <<>>
    /\ accPred = <<>>
    /\ accRes = <<>>
    /\ accStatus = "idle"

MeterIdle ==
    /\ val = 0
    /\ avg = <<0, 1>>
    /\ sum = 0
    /\ count = 0
    /\ meterErr = "none"
    /\ hist = <<>>

InitParams == ParamsIdle /\ LoadIdle /\ LrIdle /\ AccIdle /\ MeterIdle
NextParams == CallGetModelParams \/ ParamsReturn
SpecParams == InitParams /\ [][NextParams]_vars

InitLoad == ParamsIdle /\ LoadIdle /\ LrIdle /\ AccIdle /\ MeterIdle
NextLoad == ConstructModel \/ LoadPretrainedWeights
SpecLoad == InitLoad /\ [][NextLoad]_vars

InitLr == ParamsIdle /\ LoadIdle /\ LrInit /\ AccIdle /\ MeterIdle
NextLr == AdjustLearningRate
SpecLr == InitLr /\ [][NextLr]_vars

InitAcc == ParamsIdle /\ LoadIdle /\ LrIdle /\ AccIdle /\ MeterIdle
NextAcc == Accuracy \/ AccuracyReturn
SpecAcc == InitAcc /\ [][NextAcc]_vars

\* AverageMeter(): __init__ calls reset
InitMeter == ParamsIdle /\ LoadIdle /\ LrIdle /\ AccIdle /\ MeterIdle
NextMeter == Update \/ Reset
SpecMeter == InitMeter /\ [][NextMeter]_vars

----------------------------------------------------------------------------
(* Properties of the model parameter resolver *)

\* The documented table: growth_rate, num_init_features, image_size, layers
DocumentedTable ==
    [n \in SupportedNames |->
        CASE n = "densenet121" -> <<32, 64, 224, <<6, 12, 24, 16>> >>
          [] n = "densenet161" -> <<48, 96, 224, <<6, 12, 36, 24>> >>
          [] n = "densenet169" -> <<32, 64, 224, <<6, 12, 36, 32>> >>
          [] n = "densenet201" -> <<32, 64, 224, <<6, 12, 48, 32>> >>]

ParamsCalled == gmpResult.status # "none"

\* C1: for each of the four supported names, get_model_params without
\* overrides returns exactly 4 layer counts and a record whose growth_rate,
\* num_init_features and image_size are non-null and equal the documented table.
C1_ResolverMatchesTable ==
    (ParamsCalled /\ gmpName \in SupportedNames /\ DOMAIN gmpOverride = {}) =>
        /\ gmpResult.status = "ok"
        /\ Len(gmpResult.blocks_args) = 4
        /\ gmpResult.blocks_args = DocumentedTable[gmpName][4]
        /\ \A f \in {"growth_rate", "num_init_features", "image_size"} :
              gmpResult.global_params[f] # None
        /\ gmpResult.global_params["growth_rate"] = DocumentedTable[gmpName][1]
        /\ gmpResult.global_params["num_init_features"] = DocumentedTable[gmpName][2]
        /\ gmpResult.global_params["image_size"] = DocumentedTable[gmpName][3]

\* densenet161 resolved without overrides
C1_Witness ==
    /\ gmpName = "densenet161"
    /\ DOMAIN gmpOverride = {}
    /\ gmpResult.status = "ok"
    /\ gmpResult.global_params["growth_rate"] = 48
    /\ gmpResult.blocks_args = <<6, 12, 36, 24>>

\* C2: for every name that is not one of the four supported names, including
\* names that begin with 'densenet', get_model_params fails with the
\* NotImplementedError 'model name is not pre-defined' and returns nothing.
C2_UnsupportedNameError ==
    (ParamsCalled /\ gmpName \notin SupportedNames) =>
        /\ gmpResult.status = "NotImplementedError"
        /\ gmpResult.blocks_args = <<>>
        /\ gmpResult.global_params = <<>>

\* C3: for a supported name, when every override key is a declared field the
\* record holds the given value in each overridden field and, in every other
\* field and in the layer counts, what the call without overrides returns;
\* when some override key is no declared field the call fails and returns no
\* record.
C3_OverridesFrame ==
    (ParamsCalled /\ gmpName \in SupportedNames) =>
        LET plain == get_model_params(gmpName, <<>>) IN
        IF DOMAIN gmpOverride \subseteq GlobalParamsFields
        THEN /\ gmpResult.status = "ok"
             /\ DOMAIN gmpResult.global_params = GlobalParamsFields
             /\ \A f \in DOMAIN gmpOverride :
                   gmpResult.global_params[f] = gmpOverride[f]
             /\ \A f \in GlobalParamsFields \ DOMAIN gmpOverride :
                   gmpResult.global_params[f] = plain.global_params[f]
             /\ gmpResult.blocks_args = plain.blocks_args
        ELSE /\ gmpResult.status \notin {"ok", "none"}
             /\ gmpResult.blocks_args = <<>>
             /\ gmpResult.global_params = <<>>

\* drop_rate and one more field overridden on a supported model
C3_Witness ==
    /\ gmpName \in SupportedNames
    /\ "drop_rate" \in DOMAIN gmpOverride
    /\ Cardinality(DOMAIN gmpOverride) = 2
    /\ gmpResult.status = "ok"
    /\ gmpResult.global_params["drop_rate"] = gmpOverride["drop_rate"]

----------------------------------------------------------------------------
(* Properties of the pretrained-weight loader *)

\* A key of the legacy dotted-index form
\* <prefix>denselayer<N>.(norm|relu|conv).<1|2>.(weight|bias|running_mean|running_var)
LegacyForm(key) ==
    /\ Len(key) >= 4
    /\ LET tail == SubSeq(key, Len(key) - 3, Len(key)) IN
         \E l \in DenseLayerSegments, m \in {"norm", "relu", "conv"},
            i \in {"1", "2"},
            p \in {"weight", "bias", "running_mean", "running_var"} :
              tail = <<l, m, i, p>>

\* The same key with the dot before the 1|2 removed
Undotted(key) ==
    [i \in 1..(Len(key) - 1) |->
        IF i < Len(key) - 2 THEN key[i]
        ELSE IF i = Len(key) - 2 THEN key[i] \o key[i + 1]
        ELSE key[i + 1]]

LoadCalled == modelState = "loaded" /\ loadName \in urls_map

\* C4: whether load_fc is true or false, the mapping handed to the model's
\* load contains no key of the legacy dotted-index form.
C4_NoLegacyKeyHanded ==
    (LoadCalled /\ strictLoad # "none") =>
        \A k \in DOMAIN handed : ~LegacyForm(k)

\* The legacy keys of the fetched mapping and where the pass puts them
LegacyKeysMoved ==
    \A k \in DOMAIN fetched :
        LegacyForm(k) =>
            /\ Undotted(k) \in DOMAIN handed
            /\ handed[Undotted(k)] = fetched[k]
            /\ k \notin DOMAIN handed

NothingElseHanded ==
    DOMAIN handed =
        {k \in DOMAIN fetched : ~LegacyForm(k)} \cup
        {Undotted(k) : k \in {j \in DOMAIN fetched : LegacyForm(j)}}

SecondPassChangesNothing ==
    rewrite_keys(handed, DOMAIN handed) = handed

\* C5 as stated: the pass moves every legacy key to its undotted form with
\* its value, removes the old key, leaves every other key and its value
\* unmodified, and a second pass changes nothing.
C5_RewritePassAsStated ==
    (LoadCalled /\ loadFc) =>
        /\ LegacyKeysMoved
        /\ \A k \in DOMAIN fetched :
              ~LegacyForm(k) => (k \in DOMAIN handed /\ handed[k] = fetched[k])
        /\ SecondPassChangesNothing

\* C5 as amended: a key that does not match keeps its value unless the
\* fetched mapping also holds a legacy key whose undotted form is that key;
\* it then holds the legacy key's value.
C5_RewritePass ==
    (LoadCalled /\ loadFc) =>
        /\ LegacyKeysMoved
        /\ \A k \in DOMAIN fetched :
              ~LegacyForm(k) =>
                  /\ k \in DOMAIN handed
                  /\ IF \E j \in DOMAIN fetched : LegacyForm(j) /\ Undotted(j) = k
                     THEN \A j \in DOMAIN fetched :
                            (LegacyForm(j) /\ Undotted(j) = k) => handed[k] = fetched[j]
                     ELSE handed[k] = fetched[k]
        /\ NothingElseHanded
        /\ SecondPassChangesNothing

\* A checkpoint with a legacy key, its undotted form under another tensor,
\* and a key that does not match, loaded with the classifier
C5_Witness ==
    LET old == <<"features", "denseblock1", "denselayer1", "norm", "1", "weight">>
        new == <<"features", "denseblock1", "denselayer1", "norm1", "weight">>
        other == <<"denselayer1", "norm", "2", "num_batches_tracked">>
    IN  /\ LoadCalled /\ loadFc
        /\ {old, new, other} \subseteq DOMAIN fetched
        /\ fetched[old] # fetched[new]
        /\ handed[new] = fetched[old]
        /\ handed[other] = fetched[other]
        /\ old \notin DOMAIN handed

\* C9: with load_fc true a key mismatch makes the call fail and the message
\* is not emitted; with load_fc false the mapping handed to the model is the
\* fetched mapping minus the two classifier keys, the call never fails and
\* the message is always emitted.
C9_FailsExactlyWithClassifier ==
    LoadCalled =>
        IF loadFc
        THEN /\ strictLoad = "strict"
             /\ (DOMAIN handed # ModelKeys) <=> (loadErr # "none")
             /\ printed <=> (loadErr = "none")
        ELSE /\ strictLoad = "permissive"
             /\ handed = [k \in DOMAIN fetched \ {ClassifierWeight, ClassifierBias} |->
                             fetched[k]]
             /\ loadErr = "none"
             /\ printed

----------------------------------------------------------------------------
(* Properties of the learning-rate schedule *)

\* rate = base * 0.1^k, as an equation between fractions
IsDecayed(rate, base, k) ==
    rate[1] * base[2] * Pow(10, k) = base[1] * rate[2]

RatesFollowLastEpoch ==
    lrEpoch >= 0 =>
        /\ \A i \in DOMAIN paramGroups :
              IsDecayed(paramGroups[i], argsLr, lrEpoch \div 30)
        /\ \A i, j \in DOMAIN paramGroups : paramGroups[i] = paramGroups[j]
        /\ lrEpoch = 0 => \A i \in DOMAIN paramGroups : paramGroups[i] = argsLr
        /\ lrEpoch = 30 =>
              \A i \in DOMAIN paramGroups :
                  paramGroups[i] = Frac(argsLr[1], argsLr[2] * 10)
        /\ lrEpoch = 60 =>
              \A i \in DOMAIN paramGroups :
                  paramGroups[i] = Frac(argsLr[1], argsLr[2] * 100)

\* C7: after any sequence of adjust_learning_rate calls, every parameter
\* group holds base * 0.1^floor(e/30) for the epoch e of the most recent call
\* (all groups the same rate, whatever the earlier calls and rates were), and
\* the base rate is never changed.
C7_RateFollowsLastEpoch ==
    /\ []RatesFollowLastEpoch
    /\ [][argsLr' = argsLr]_vars

\* Base rate 0.1 and two groups, after a call at epoch 60
C7_Witness ==
    /\ lrEpoch = 60
    /\ argsLr = <<1, 10>>
    /\ paramGroups = << <<1, 1000>>, <<1, 1000>> >>

----------------------------------------------------------------------------
(* Properties of the top-k accuracy *)

\* The classes other than c that score at least, or more than, class c
AtLeast(row, c) == {d \in DOMAIN row : d # c /\ row[d] >= row[c]}
Above(row, c) == {d \in DOMAIN row : row[d] > row[c]}

\* The examples whose true label is among the k highest-scoring classes
\* however equal scores are ordered, and under some order of equal scores
SurelyInTopk(k) ==
    {i \in DOMAIN accTarget : Cardinality(AtLeast(accOutput[i], accTarget[i])) < k}
PossiblyInTopk(k) ==
    {i \in DOMAIN accTarget : Cardinality(Above(accOutput[i], accTarget[i])) < k}

\* C8: for a batch of positive size and any non-empty tuple of k values,
\* accuracy returns one result per k, in the order given, each
\* 100 * (examples whose true label is among the example's k highest-scoring
\* classes) / batch size; top-1 is 100 when every example's highest-scoring
\* class is its true label and 0 when none is.
C8_TopkAccuracy ==
    (accStatus # "idle" /\ Len(accTarget) > 0 /\ accTopk # <<>>) =>
        /\ accStatus = "ok"
        /\ Len(accRes) = Len(accTopk)
        /\ \A x \in DOMAIN accTopk :
              \E hits \in Cardinality(SurelyInTopk(accTopk[x]))
                           ..Cardinality(PossiblyInTopk(accTopk[x])) :
                  accRes[x] = Frac(100 * hits, Len(accTarget))
        /\ \A x \in DOMAIN accTopk :
              accTopk[x] = 1 =>
                  /\ SurelyInTopk(1) = DOMAIN accTarget => accRes[x] = <<100, 1>>
                  /\ PossiblyInTopk(1) = {} => accRes[x] = <<0, 1>>

----------------------------------------------------------------------------
(* Properties of AverageMeter *)

RECURSIVE SumWeights(_)
SumWeights(h) == IF h = <<>> THEN 0 ELSE h[1][2] + SumWeights(Tail(h))

RECURSIVE SumWeighted(_)
SumWeighted(h) == IF h = <<>> THEN 0 ELSE h[1][1] * h[1][2] + SumWeighted(Tail(h))

PositiveWeights == \A i \in DOMAIN hist : hist[i][2] > 0

\* C6: under update calls with positive weights and reset calls, after every
\* call count is the sum of the weights since the last reset, sum the sum of
\* value*weight, val the most recent value and avg = sum / count; right
\* after construction or reset all four fields are zero.
C6_MeterTracksHistory ==
    /\ PositiveWeights =>
          /\ count = SumWeights(hist)
          /\ sum = SumWeighted(hist)
          /\ hist # <<>> =>
                /\ val = hist[Len(hist)][1]
                /\ avg[2] > 0
                /\ avg[1] * count = sum * avg[2]
                /\ avg = Frac(sum, count)
          /\ meterErr = "none"
    /\ hist = <<>> => (val = 0 /\ sum = 0 /\ count = 0 /\ avg = <<0, 1>>)
    /\ hist = << <<4, 2>>, <<6, 2>> >> => avg = <<5, 1>>

\* update(4, 2) then update(6, 2)
C6_Witness ==
    /\ hist = << <<4, 2>>, <<6, 2>> >>
    /\ avg = <<5, 1>>
    /\ sum = 20
    /\ count = 4
    /\ val = 6

\* One step is an update(v, n)
IsUpdate(v, n) == hist' = Append(hist, <<v, n>>)

\* C10: an update(value, weight) that brings the running count to zero
\* raises a division-by-zero error after val, sum and count have been
\* overwritten, while avg keeps the value it had before the call; any other
\* update does not raise.
C10_UpdateNotAtomic ==
    [][\A v \in MeterValues, n \in MeterWeights :
          IsUpdate(v, n) =>
              IF count + n = 0
              THEN /\ meterErr' = "ZeroDivisionError"
                   /\ val' = v
                   /\ sum' = sum + v * n
                   /\ count' = 0
                   /\ avg' = avg
              ELSE meterErr' = "none"]_vars

\* update(4, 1) then update(6, -1): sum is -2, count 0, and avg still 4
C10_Witness ==
    /\ hist = << <<4, 1>>, <<6, 0 - 1>> >>
    /\ meterErr = "ZeroDivisionError"
    /\ val = 6
    /\ sum = 0 - 2
    /\ count = 0
    /\ avg = <<4, 1>>

====
